---- MODULE Spec2Model ----
(***************************************************************************)
(* cloudbuild-k8s-generator.py: discovery of the solutions under k8s/,     *)
(* rendering of CLOUDBUILD_TEMPLATE, and the write / --verify_only modes   *)
(* against the cloudbuild.yaml file.                                       *)
(*                                                                         *)
(* Text is modelled as a sequence of tokens: a token is either a run of    *)
(* ASCII characters holding no line terminator, or one of the single       *)
(* characters LF and CR.  A line of the template is one string; the empty  *)
(* line is the empty string.                                               *)
(***************************************************************************)
EXTENDS Integers, Sequences, FiniteSets, TLC

LF == "\n"
CR == "\r"

(***************************************************************************)
(* Static configuration of main().                                         *)
(***************************************************************************)
CLOUDBUILD_CONFIG == "cloudbuild.yaml"

skiplist == <<"elastic-gke-logging", "elasticsearch", "spark-operator">>

extra_configs ==
  [wordpress |->
     << [name |-> "Public service and ingress",
         env_vars |-> <<"PUBLIC_SERVICE_AND_INGRESS_ENABLED=true">>],
        [name |-> "Prometheus metrics",
         env_vars |-> <<"METRICS_EXPORTER_ENABLED=true">>] >>]

\* extra_configs[solution] inside the template: a missing key is an
\* undefined value, which a for loop iterates as the empty sequence.
ExtraConfigsOf(solution) ==
  IF solution \in DOMAIN extra_configs THEN extra_configs[solution] ELSE <<>>

InSeq(x, s) == \E i \in 1..Len(s) : s[i] = x

\* The concatenation of the sequences ss[lo], ..., ss[hi].
RECURSIVE ConcatRange(_, _, _)
ConcatRange(ss, lo, hi) ==
  IF lo > hi THEN <<>>
  ELSE IF lo = hi THEN ss[lo]
  ELSE LET mid == (lo + hi) \div 2
       IN ConcatRange(ss, lo, mid) \o ConcatRange(ss, mid + 1, hi)

\* The concatenation of a sequence of sequences.
Concat(ss) == ConcatRange(ss, 1, Len(ss))

(***************************************************************************)
(* CLOUDBUILD_TEMPLATE, region by region.  Each step of the pipeline is a  *)
(* record: the values substituted into the block, and the lines of text    *)
(* the block renders to.  A "{%-" tag removes the blank lines before it,   *)
(* so every block starts with one empty line and ends with its last line.  *)
(***************************************************************************)
TemplateHeader ==
  << "# Copyright 2018 Google LLC",
     "#",
     "# Licensed under the Apache License, Version 2.0 (the \"License\");",
     "# you may not use this file except in compliance with the License.",
     "# You may obtain a copy of the License at",
     "#",
     "#      http://www.apache.org/licenses/LICENSE-2.0",
     "#",
     "# Unless required by applicable law or agreed to in writing, software",
     "# distributed under the License is distributed on an \"AS IS\" BASIS,",
     "# WITHOUT WARRANTIES OR CONDITIONS OF ANY KIND, either express or implied.",
     "# See the License for the specific language governing permissions and",
     "# limitations under the License.",
     "",
     "##################################################################################",
     "## This file is generated by cloudbuild-k8s-generator.py. Do not manually edit. ##",
     "##################################################################################",
     "",
     "timeout: 1800s # 30m",
     "options:",
     "  machineType: 'N1_HIGHCPU_8'",
     "substitutions:",
     "  _CLUSTER_NAME: cluster-1",
     "  _CLUSTER_LOCATION: us-central1",
     "steps:" >>

PreambleSteps ==
  << [id |-> "Pull Dev Image", kind |-> "preamble", solution |-> "",
      waitFor |-> <<>>, env_vars |-> <<>>,
      text |->
        << "",
           "- id: Pull Dev Image",
           "  name: gcr.io/cloud-builders/docker",
           "  dir: k8s",
           "  entrypoint: bash",
           "  args:",
           "  - -exc",
           "  - |",
           "    TAG=\"$$(cat ./MARKETPLACE_TOOLS_TAG)\"",
           "    docker pull \"gcr.io/cloud-marketplace-tools/k8s/dev:$$TAG\"",
           "    docker tag \"gcr.io/cloud-marketplace-tools/k8s/dev:$$TAG\" \"gcr.io/cloud-marketplace-tools/k8s/dev:local\"" >>],
     [id |-> "Get Kubernetes Credentials", kind |-> "preamble", solution |-> "",
      waitFor |-> <<>>, env_vars |-> <<>>,
      text |->
        << "",
           "- id: Get Kubernetes Credentials",
           "  name: gcr.io/cloud-builders/gcloud",
           "  args:",
           "  - container",
           "  - clusters",
           "  - get-credentials",
           "  - '$_CLUSTER_NAME'",
           "  - --region",
           "  - '$_CLUSTER_LOCATION'",
           "  - --project",
           "  - '$PROJECT_ID'" >>],
     [id |-> "Copy kubectl Credentials", kind |-> "preamble", solution |-> "",
      waitFor |-> <<"Get Kubernetes Credentials">>, env_vars |-> <<>>,
      text |->
        << "",
           "- id: Copy kubectl Credentials",
           "  name: gcr.io/google-appengine/debian9",
           "  waitFor:",
           "  - Get Kubernetes Credentials",
           "  entrypoint: bash",
           "  args:",
           "  - -exc",
           "  - |",
           "    mkdir -p /workspace/.kube/",
           "    cp -r $$HOME/.kube/ /workspace/" >>],
     [id |-> "Copy gcloud Credentials", kind |-> "preamble", solution |-> "",
      waitFor |-> <<"Get Kubernetes Credentials">>, env_vars |-> <<>>,
      text |->
        << "",
           "- id: Copy gcloud Credentials",
           "  name: gcr.io/google-appengine/debian9",
           "  waitFor:",
           "  - Get Kubernetes Credentials",
           "  entrypoint: bash",
           "  args:",
           "  - -exc",
           "  - |",
           "    mkdir -p /workspace/.config/gcloud/",
           "    cp -r $$HOME/.config/gcloud/ /workspace/.config/" >>] >>

\* The env: lines every Build and Verify block carries.
DefaultEnvText ==
  << "  env:",
     "  - 'KUBE_CONFIG=/workspace/.kube'",
     "  - 'GCLOUD_CONFIG=/workspace/.config/gcloud'",
     "  # Use local Docker network named cloudbuild as described here:",
     "  # https://cloud.google.com/cloud-build/docs/overview#build_configuration_and_build_steps",
     "  - 'EXTRA_DOCKER_PARAMS=--net cloudbuild'" >>

\* "  - <item>" for each item of a YAML list.
ListText(items) == [i \in 1..Len(items) |-> "  - " \o items[i]]

\* "  - '<env_var>'" for each env_var of the inner loop.
EnvVarText(env_vars) == [i \in 1..Len(env_vars) |-> "  - '" \o env_vars[i] \o "'"]

BuildStep(solution) ==
  LET id == "Build " \o solution
  IN [id |-> id, kind |-> "build", solution |-> solution,
      waitFor |-> <<>>, env_vars |-> <<>>,
      text |->
        << "",
           "- id: " \o id,
           "  name: gcr.io/cloud-marketplace-tools/k8s/dev:local" >>
        \o DefaultEnvText
        \o << "  dir: k8s/" \o solution,
              "  args:",
              "  - make",
              "  - -j4",
              "  - app/build" >>]

VerifyWaitFor(solution) ==
  << "Copy kubectl Credentials",
     "Copy gcloud Credentials",
     "Pull Dev Image",
     "Build " \o solution >>

VerifyStep(solution) ==
  LET id == "Verify " \o solution
      waitFor == VerifyWaitFor(solution)
  IN [id |-> id, kind |-> "verify", solution |-> solution,
      waitFor |-> waitFor, env_vars |-> <<>>,
      text |->
        << "",
           "- id: " \o id,
           "  name: gcr.io/cloud-marketplace-tools/k8s/dev:local",
           "  waitFor:" >>
        \o ListText(waitFor)
        \o DefaultEnvText
        \o << "  dir: k8s/" \o solution,
              "  args:",
              "  - make",
              "  - -j4",
              "  - app/verify" >>]

\* Faulty variant: the env_vars of every variant of wordpress, not of this one.
VariantEnvVarsOfAll(extra_config) ==
  Concat([i \in 1..Len(extra_configs.wordpress) |->
            extra_configs.wordpress[i].env_vars])

\* {%- for env_var in extra_config['env_vars'] %}
VariantEnvVars(extra_config) == extra_config.env_vars

VariantStep(solution, extra_config) ==
  LET id == "Verify " \o solution \o " (" \o extra_config.name \o ")"
      waitFor == VerifyWaitFor(solution)
      env_vars == VariantEnvVars(extra_config)
  IN [id |-> id, kind |-> "variant", solution |-> solution,
      waitFor |-> waitFor, env_vars |-> env_vars,
      text |->
        << "",
           "- id: " \o id,
           "  name: gcr.io/cloud-marketplace-tools/k8s/dev:local",
           "  waitFor:" >>
        \o ListText(waitFor)
        \o DefaultEnvText
        \o << "  # Non-default variables." >>
        \o EnvVarText(env_vars)
        \o << "  dir: k8s/" \o solution,
              "  args:",
              "  - make",
              "  - -j4",
              "  - app/verify" >>]

\* {%- for extra_config in extra_configs[solution] %} ... {%- endfor %}
VariantSteps(solution) ==
  LET ecs == ExtraConfigsOf(solution)
  IN [i \in 1..Len(ecs) |-> VariantStep(solution, ecs[i])]

\* First loop of the template: one Build block per solution.
RECURSIVE BuildLoop(_)
BuildLoop(solutions) ==
  IF solutions = <<>> THEN <<>>
  ELSE <<BuildStep(Head(solutions))>> \o BuildLoop(Tail(solutions))

\* Second loop: a Verify block, then the variant blocks, per solution.
RECURSIVE VerifyLoop(_)
VerifyLoop(solutions) ==
  IF solutions = <<>> THEN <<>>
  ELSE <<VerifyStep(Head(solutions))>> \o VariantSteps(Head(solutions))
       \o VerifyLoop(Tail(solutions))

\* Faulty variant: a single loop, each solution's Build block followed by its
\* Verify blocks.
RECURSIVE InterleavedLoop(_)
InterleavedLoop(solutions) ==
  IF solutions = <<>> THEN <<>>
  ELSE <<BuildStep(Head(solutions)), VerifyStep(Head(solutions))>>
       \o VariantSteps(Head(solutions)) \o InterleavedLoop(Tail(solutions))

TemplateStepsInterleaved(solutions) ==
  PreambleSteps \o InterleavedLoop(solutions)

TemplateSteps(solutions) ==
  PreambleSteps \o BuildLoop(solutions) \o VerifyLoop(solutions)

\* The lines of the blocks, one block after the other.
StepsText(steps) == Concat([i \in 1..Len(steps) |-> steps[i].text])

\* The lines joined by LF (no LF after the last line: the template is
\* strip()ped and a single trailing newline is not kept).
JoinLines(lines) ==
  Concat([i \in 1..Len(lines) |->
            (IF lines[i] = "" THEN <<>> ELSE <<lines[i]>>)
            \o (IF i < Len(lines) THEN <<LF>> ELSE <<>>)])

\* Template(CLOUDBUILD_TEMPLATE).render(solutions=..., extra_configs=...)
TemplateRender(solutions) ==
  JoinLines(TemplateHeader \o StepsText(TemplateSteps(solutions)))

\* ... .render(...) + '\n'
RenderContents(solutions) == TemplateRender(solutions) \o <<LF>>

(***************************************************************************)
(* The filesystem the script runs against, and the bounds of the model.    *)
(***************************************************************************)
\* Most entries k8s/ holds at a time.
MaxEntries == 4

\* The names k8s/ may hold, in the order Python compares str values
\* (by code point: 'R' < 'r', and a proper prefix sorts first).
CodePointOrder ==
  << "README.md",
     "redis",
     "spark-operator",
     "wordpress",
     "wordpress (Prometheus metrics)" >>

EntryNames == {CodePointOrder[i] : i \in 1..Len(CodePointOrder)}

\* README.md is a plain file; every other name is a directory.
IsDirName(name) == name # "README.md"

Interpreters == {"py2", "py3"}

VARIABLES
  interp,               \* what "#!/usr/bin/env python" resolves to
  root,                 \* k8s: [kind, entries]
  out,                  \* cloudbuild.yaml: [kind, data]
  out_before,           \* history: cloudbuild.yaml as the run found it
  pc,                   \* position of the run in main()
  verify_only,          \* args.verify_only
  listdir,              \* main's listdir
  solutions_to_build,   \* main's solutions_to_build
  cloudbuild_contents,  \* main's cloudbuild_contents
  rendered_steps,       \* the steps cloudbuild_contents describes
  stdout,               \* what the run printed
  exit_code,            \* exit status of the finished run, -1 while running
  error,                \* the uncaught exception of the run, or "none"
  listing_unsorted,     \* history: os.listdir returned the names out of order
  fresh_write,          \* history: a write run succeeded and nothing changed since
  prev_contents         \* history: <<contents>> of the last render since k8s changed

vars ==
  << interp, root, out, out_before, pc, verify_only, listdir, solutions_to_build,
     cloudbuild_contents, rendered_steps, stdout, exit_code, error,
     listing_unsorted, fresh_write, prev_contents >>

(***************************************************************************)
(* Pure helpers of main() and verify_cloudbuild().                         *)
(***************************************************************************)
Rank(name) == CHOOSE i \in 1..Len(CodePointOrder) : CodePointOrder[i] = name

\* str.__lt__
StrLess(a, b) == Rank(a) < Rank(b)

RECURSIVE Insert(_, _)
Insert(x, s) ==
  IF s = <<>> THEN <<x>>
  ELSE IF StrLess(x, Head(s)) THEN <<x>> \o s
  ELSE <<Head(s)>> \o Insert(x, Tail(s))

RECURSIVE SortedList(_)
SortedList(s) ==
  IF s = <<>> THEN <<>> ELSE Insert(Head(s), SortedList(Tail(s)))

\* Faulty variant: the list is left in the order os.listdir returned it.
ListSortSkipped(s) == s

\* listdir.sort()
ListSort(s) == SortedList(s)

IsSorted(s) == \A i \in 1..Len(s) - 1 : StrLess(s[i], s[i + 1])

\* os.path.isdir(os.path.join('k8s', f))
IsDir(f) == f \in DOMAIN root.entries /\ root.entries[f]

\* [f for f in os.listdir('k8s') if os.path.isdir(...)]
RECURSIVE OnlyDirs(_)
OnlyDirs(names) ==
  IF names = <<>> THEN <<>>
  ELSE (IF IsDir(Head(names)) THEN <<Head(names)>> ELSE <<>>)
       \o OnlyDirs(Tail(names))

\* The orders in which os.listdir may return the entries: any.
Listings(entries) ==
  LET n == Cardinality(entries)
  IN {s \in [1..n -> entries] : \A i, j \in 1..n : s[i] = s[j] => i = j}

\* Faulty variant: the last name of the skiplist is not looked at.
SkippedButLast(solution) ==
  InSeq(solution, SubSeq(skiplist, 1, Len(skiplist) - 1))

\* "solution in skiplist"
Skipped(solution) == InSeq(solution, skiplist)

\* The for loop over listdir: what is appended to solutions_to_build.
RECURSIVE FilterLoop(_)
FilterLoop(names) ==
  IF names = <<>> THEN <<>>
  ELSE (IF Skipped(Head(names)) THEN <<>> ELSE <<Head(names)>>)
       \o FilterLoop(Tail(names))

\* The for loop over listdir: what is printed.
FilterLog(names) ==
  [i \in 1..Len(names) |->
     IF Skipped(names[i]) THEN "Skipping solution: " \o names[i]
     ELSE "Adding config for solution: " \o names[i]]

\* Python 3 text mode reads with universal newlines: CR LF and a lone CR
\* both become LF.  Python 2 on POSIX reads the bytes as they are.
UniversalNewlines(data) ==
  Concat([i \in 1..Len(data) |->
            IF data[i] = CR THEN <<LF>>
            ELSE IF data[i] = LF /\ i > 1 /\ data[i - 1] = CR THEN <<>>
            ELSE <<data[i]>>])

\* cloudbuild_file.read() of open(CLOUDBUILD_CONFIG, 'r')
FileRead(data) == IF interp = "py3" THEN UniversalNewlines(data) ELSE data

\* os.linesep of the platform the script runs on (POSIX).
Linesep == <<LF>>

\* cloudbuild_file.write(...) of open(CLOUDBUILD_CONFIG, 'w'): text mode
\* writes os.linesep for every LF.
\* Faulty variant: the trailing newline is not written.
FileWriteStripped(text) == SubSeq(text, 1, Len(text) - 1)

FileWrite(text) ==
  Concat([i \in 1..Len(text) |-> IF text[i] = LF THEN Linesep ELSE <<text[i]>>])

\* verify_cloudbuild(cloudbuild_contents)
verify_cloudbuild(contents) ==
  IF out.kind # "file" THEN FALSE
  ELSE FileRead(out.data) = contents

UpToDateLine == "The " \o CLOUDBUILD_CONFIG \o " file is up-to-date"
NotUpToDateLine ==
  "The " \o CLOUDBUILD_CONFIG \o " file is not up-to-date. Please re-generate it"

(***************************************************************************)
(* Initial state: an empty k8s directory, no cloudbuild.yaml, no run yet.  *)
(***************************************************************************)
NoEntries == [n \in {} |-> TRUE]

Init ==
  /\ interp \in Interpreters
  /\ root = [kind |-> "dir", entries |-> NoEntries]
  /\ out = [kind |-> "absent", data |-> <<>>]
  /\ out_before = out
  /\ pc = "idle"
  /\ verify_only = FALSE
  /\ listdir = <<>>
  /\ solutions_to_build = <<>>
  /\ cloudbuild_contents = <<>>
  /\ rendered_steps = <<>>
  /\ stdout = <<>>
  /\ exit_code = -1
  /\ error = "none"
  /\ listing_unsorted = FALSE
  /\ fresh_write = FALSE
  /\ prev_contents = <<>>

(***************************************************************************)
(* One run of the script, statement by statement.                          *)
(***************************************************************************)
\* What the finished run rendered, if it rendered, else what was known.
LastContents ==
  IF cloudbuild_contents # <<>> THEN <<cloudbuild_contents>> ELSE prev_contents

\* args = parser.parse_args()
Start(flag) ==
  /\ pc \in {"idle", "exited"}
  /\ pc' = "parsed"
  /\ verify_only' = flag
  /\ listdir' = <<>>
  /\ solutions_to_build' = <<>>
  /\ cloudbuild_contents' = <<>>
  /\ rendered_steps' = <<>>
  /\ stdout' = <<>>
  /\ exit_code' = -1
  /\ error' = "none"
  /\ listing_unsorted' = FALSE
  /\ prev_contents' = LastContents
  /\ out_before' = out
  /\ UNCHANGED <<interp, root, out, fresh_write>>

\* Faulty variant: the OSError is caught and k8s taken to be empty.
ListDirFailsRecovered ==
  /\ pc = "parsed"
  /\ root.kind # "dir"
  /\ listdir' = <<>>
  /\ pc' = "listed"
  /\ UNCHANGED <<interp, root, out, out_before, verify_only,
                 solutions_to_build, cloudbuild_contents, rendered_steps,
                 stdout, exit_code, error, listing_unsorted, fresh_write,
                 prev_contents>>

\* os.listdir('k8s') raises OSError: the run dies with a traceback.
ListDirFails ==
  /\ pc = "parsed"
  /\ root.kind # "dir"
  /\ pc' = "exited"
  /\ exit_code' = 1
  /\ error' = "OSError"
  /\ UNCHANGED <<interp, root, out, out_before, verify_only, listdir, solutions_to_build,
                 cloudbuild_contents, rendered_steps, stdout,
                 listing_unsorted, fresh_write, prev_contents>>

\* listdir = [f for f in os.listdir('k8s') if os.path.isdir(...)]
ListDir ==
  /\ pc = "parsed"
  /\ root.kind = "dir"
  /\ \E names \in Listings(DOMAIN root.entries) :
       /\ listdir' = OnlyDirs(names)
       /\ listing_unsorted' = ~IsSorted(OnlyDirs(names))
  /\ pc' = "listed"
  /\ UNCHANGED <<interp, root, out, out_before, verify_only, solutions_to_build,
                 cloudbuild_contents, rendered_steps, stdout, exit_code,
                 error, fresh_write, prev_contents>>

\* listdir.sort()
Sort ==
  /\ pc = "listed"
  /\ listdir' = ListSort(listdir)
  /\ pc' = "sorted"
  /\ UNCHANGED <<interp, root, out, out_before, verify_only, solutions_to_build,
                 cloudbuild_contents, rendered_steps, stdout, exit_code,
                 error, listing_unsorted, fresh_write, prev_contents>>

\* for solution in listdir: skip or append
Filter ==
  /\ pc = "sorted"
  /\ solutions_to_build' = FilterLoop(listdir)
  /\ stdout' = stdout \o FilterLog(listdir)
  /\ pc' = "filtered"
  /\ UNCHANGED <<interp, root, out, out_before, verify_only, listdir,
                 cloudbuild_contents, rendered_steps, exit_code, error,
                 listing_unsorted, fresh_write, prev_contents>>

\* cloudbuild_contents = Template(CLOUDBUILD_TEMPLATE).render(...) + '\n'
Render ==
  /\ pc = "filtered"
  /\ cloudbuild_contents' = RenderContents(solutions_to_build)
  /\ rendered_steps' = TemplateSteps(solutions_to_build)
  /\ pc' = "rendered"
  /\ UNCHANGED <<interp, root, out, out_before, verify_only, listdir, solutions_to_build,
                 stdout, exit_code, error, listing_unsorted, fresh_write,
                 prev_contents>>

\* Faulty variant: the file is opened for writing, which truncates it, and the
\* comparison is made against the empty text.
VerifyTruncating ==
  /\ pc = "rendered"
  /\ verify_only
  /\ out.kind = "file"
  /\ out' = [kind |-> "file", data |-> <<>>]
  /\ stdout' = Append(stdout, NotUpToDateLine)
  /\ exit_code' = 1
  /\ pc' = "exited"
  /\ UNCHANGED <<interp, root, out_before, verify_only, listdir,
                 solutions_to_build, cloudbuild_contents, rendered_steps,
                 error, listing_unsorted, fresh_write, prev_contents>>

\* if args.verify_only: print the status line and os.sys.exit(0 or 1)
Verify ==
  /\ pc = "rendered"
  /\ verify_only
  /\ IF verify_cloudbuild(cloudbuild_contents)
       THEN /\ stdout' = Append(stdout, UpToDateLine)
            /\ exit_code' = 0
       ELSE /\ stdout' = Append(stdout, NotUpToDateLine)
            /\ exit_code' = 1
  /\ pc' = "exited"
  /\ UNCHANGED <<interp, root, out, out_before, verify_only, listdir, solutions_to_build,
                 cloudbuild_contents, rendered_steps, error,
                 listing_unsorted, fresh_write, prev_contents>>

\* else: open(CLOUDBUILD_CONFIG, 'w') raises IsADirectoryError
WriteFails ==
  /\ pc = "rendered"
  /\ ~verify_only
  /\ out.kind = "dir"
  /\ pc' = "exited"
  /\ exit_code' = 1
  /\ error' = "IsADirectoryError"
  /\ UNCHANGED <<interp, root, out, out_before, verify_only, listdir, solutions_to_build,
                 cloudbuild_contents, rendered_steps, stdout,
                 listing_unsorted, fresh_write, prev_contents>>

\* Faulty variant: the file is opened with 'a' and keeps what it held.
WrittenAppending(contents) ==
  [kind |-> "file", data |-> out.data \o FileWrite(contents)]

\* What open(..., 'w') and write(contents) leave in the file.
Written(contents) == [kind |-> "file", data |-> FileWrite(contents)]

\* else: with open(CLOUDBUILD_CONFIG, 'w') ...: write(cloudbuild_contents)
Write ==
  /\ pc = "rendered"
  /\ ~verify_only
  /\ out.kind # "dir"
  /\ out' = Written(cloudbuild_contents)
  /\ pc' = "exited"
  /\ exit_code' = 0
  /\ fresh_write' = TRUE
  /\ UNCHANGED <<interp, root, out_before, verify_only, listdir,
                 solutions_to_build, cloudbuild_contents, rendered_steps,
                 stdout, error, listing_unsorted, prev_contents>>

(***************************************************************************)
(* The environment, between two runs: it changes k8s and cloudbuild.yaml.  *)
(***************************************************************************)
Between == pc \in {"idle", "exited"}

\* The run's variables once the environment has moved on.
Forget ==
  /\ pc' = "idle"
  /\ verify_only' = FALSE
  /\ listdir' = <<>>
  /\ solutions_to_build' = <<>>
  /\ cloudbuild_contents' = <<>>
  /\ rendered_steps' = <<>>
  /\ stdout' = <<>>
  /\ exit_code' = -1
  /\ error' = "none"
  /\ listing_unsorted' = FALSE
  /\ fresh_write' = FALSE

RootChange(kind, entries) ==
  /\ Between
  /\ root' = [kind |-> kind, entries |-> entries]
  /\ prev_contents' = <<>>
  /\ out_before' = out
  /\ Forget
  /\ UNCHANGED <<interp, out>>

FileChange(kind, data) ==
  /\ Between
  /\ out' = [kind |-> kind, data |-> data]
  /\ out_before' = out'
  /\ prev_contents' = LastContents
  /\ Forget
  /\ UNCHANGED <<interp, root>>

EnvAddEntry ==
  /\ root.kind = "dir"
  /\ Cardinality(DOMAIN root.entries) < MaxEntries
  /\ \E name \in EntryNames \ DOMAIN root.entries :
       RootChange("dir", [n \in DOMAIN root.entries \cup {name} |-> IsDirName(n)])

EnvRemoveEntry ==
  /\ root.kind = "dir"
  /\ \E name \in DOMAIN root.entries :
       RootChange("dir", [n \in DOMAIN root.entries \ {name} |-> IsDirName(n)])

EnvRemoveRoot ==
  /\ root.kind # "missing"
  /\ root.entries = NoEntries
  /\ RootChange("missing", NoEntries)

EnvMakeRoot ==
  /\ root.kind = "missing"
  /\ \E kind \in {"dir", "file"} : RootChange(kind, NoEntries)

\* unix2dos: every LF becomes CR LF.
Unix2Dos(data) ==
  Concat([i \in 1..Len(data) |-> IF data[i] = LF THEN <<CR, LF>> ELSE <<data[i]>>])

\* A file as a run wrote it: it ends with a line and one LF, and holds
\* no CR.
Pristine(data) ==
  /\ Len(data) >= 2
  /\ data[Len(data)] = LF
  /\ data[Len(data) - 1] # LF
  /\ ~InSeq(CR, data)

EnvEditFile ==
  /\ out.kind = "file"
  /\ Pristine(out.data)
  /\ \E data \in {Unix2Dos(out.data), out.data \o <<" ">>, out.data \o <<LF>>} :
       FileChange("file", data)

EnvTruncateFile ==
  /\ out.kind = "file"
  /\ out.data # <<>>
  /\ FileChange("file", <<>>)

EnvRemoveFile ==
  /\ out.kind # "absent"
  /\ FileChange("absent", <<>>)

EnvCreateFile ==
  /\ out.kind = "absent"
  /\ \E kind \in {"file", "dir"} : FileChange(kind, <<>>)

Next ==
  \/ \E flag \in BOOLEAN : Start(flag)
  \/ ListDirFails
  \/ ListDir
  \/ Sort
  \/ Filter
  \/ Render
  \/ Verify
  \/ WriteFails
  \/ Write
  \/ EnvAddEntry
  \/ EnvRemoveEntry
  \/ EnvRemoveRoot
  \/ EnvMakeRoot
  \/ EnvEditFile
  \/ EnvTruncateFile
  \/ EnvRemoveFile
  \/ EnvCreateFile

Spec == Init /\ [][Next]_vars

(***************************************************************************)
(* Properties.                                                             *)
(***************************************************************************)
\* The run has rendered (a rendered document is never empty).
Rendered == cloudbuild_contents # <<>>

Finished == pc = "exited"

SkipSet == {skiplist[i] : i \in 1..Len(skiplist)}

PreambleIds ==
  << "Pull Dev Image",
     "Get Kubernetes Credentials",
     "Copy kubectl Credentials",
     "Copy gcloud Credentials" >>

\* The extra-config entries of a solution: none when the map has no key.
ConfigsOf(s) == IF s \in DOMAIN extra_configs THEN extra_configs[s] ELSE <<>>

\* Every environment-variable string of the extra-config map.
EnvVarsOf(ecs) ==
  UNION {{ecs[k].env_vars[v] : v \in 1..Len(ecs[k].env_vars)} : k \in 1..Len(ecs)}

AllExtraEnvVars == UNION {EnvVarsOf(extra_configs[s]) : s \in DOMAIN extra_configs}

\* C1: a verify run that ends while a write run has succeeded and nothing
\* has changed since reports "up-to-date" and exits with status 0.
C1_WriteThenVerifyUpToDate ==
  (Finished /\ verify_only /\ fresh_write) =>
    /\ exit_code = 0
    /\ error = "none"
    /\ stdout # <<>>
    /\ stdout[Len(stdout)] = UpToDateLine

C1_Witness ==
  /\ Finished /\ verify_only /\ fresh_write
  /\ Len(solutions_to_build) >= 2
  /\ exit_code = 0

\* C2: the solution list is the child directories of k8s, files left out,
\* in ascending order, without the skip-listed names; and no step or line
\* of the rendered document is about a skip-listed name.
C2_Discovery ==
  (pc \in {"filtered", "rendered"} \/ (Finished /\ Rendered)) =>
    LET sols == solutions_to_build
    IN /\ {sols[i] : i \in 1..Len(sols)} =
            {n \in DOMAIN root.entries : root.entries[n] /\ n \notin SkipSet}
       /\ \A i, j \in 1..Len(sols) : i < j => StrLess(sols[i], sols[j])
       /\ \A i \in 1..Len(rendered_steps) :
            rendered_steps[i].solution \notin SkipSet
       /\ \A k \in SkipSet :
            /\ ~InSeq("- id: Build " \o k, cloudbuild_contents)
            /\ ~InSeq("- id: Verify " \o k, cloudbuild_contents)
            /\ ~InSeq("  - Build " \o k, cloudbuild_contents)
            /\ ~InSeq("  dir: k8s/" \o k, cloudbuild_contents)

C2_Witness ==
  /\ pc = "rendered"
  /\ listing_unsorted
  /\ "spark-operator" \in DOMAIN root.entries
  /\ "README.md" \in DOMAIN root.entries
  /\ solutions_to_build = <<"redis", "wordpress">>

\* C3: a verify run that got to the comparison ends without an exception,
\* and exits 0 exactly when cloudbuild.yaml is a file whose bytes are the
\* rendered document; else it exits 1.
C3_VerifyExactComparison ==
  (Finished /\ verify_only /\ Rendered) =>
    /\ error = "none"
    /\ exit_code \in {0, 1}
    /\ exit_code = 0 <=> (out.kind = "file" /\ out.data = cloudbuild_contents)

\* C4: in a verify run no statement changes cloudbuild.yaml.
C4_VerifyNeverMutates ==
  [][(verify_only' /\ pc' # "idle") => out' = out]_vars

C4_Witness ==
  /\ Finished /\ verify_only
  /\ exit_code = 1
  /\ out.kind = "file"
  /\ out.data # <<>>
  /\ out = out_before

C6_TwoPhaseOrdering ==
  Rendered =>
    LET st == rendered_steps
        sols == solutions_to_build
        n == Len(sols)
        p == Len(PreambleIds)
        IsVerify(step) == step.kind = "verify"
        base == SelectSeq(st, IsVerify)
        IsIdLine(t) == \E i \in 1..Len(st) : t = "- id: " \o st[i].id
    IN /\ Len(st) >= p + 2 * n
       /\ \A i \in 1..p : st[i].kind = "preamble" /\ st[i].id = PreambleIds[i]
       /\ \A i \in 1..n :
            st[p + i].kind = "build" /\ st[p + i].id = "Build " \o sols[i]
       /\ \A i \in (p + n + 1)..Len(st) :
            /\ st[i].kind \in {"verify", "variant"}
            /\ InSeq("Build " \o st[i].solution, st[i].waitFor)
            /\ \E j \in 1..(i - 1) :
                 st[j].kind = "build" /\ st[j].id = "Build " \o st[i].solution
       /\ [i \in 1..Len(base) |-> base[i].solution] = sols
       /\ SelectSeq(cloudbuild_contents, IsIdLine)
            = [i \in 1..Len(st) |-> "- id: " \o st[i].id]
       /\ n = 0 => Len(st) = p

C6_Witness ==
  /\ pc = "rendered"
  /\ Len(solutions_to_build) >= 2
  /\ InSeq("wordpress", solutions_to_build)

\* C7: a write run that got to the write and raised nothing leaves
\* cloudbuild.yaml a file holding exactly the rendered document and exits
\* with status 0; and it raises only when the path is a directory.
C7_WriteOverwrites ==
  (Finished /\ ~verify_only /\ Rendered) =>
    /\ error = "none" =>
         /\ out = [kind |-> "file", data |-> cloudbuild_contents]
         /\ exit_code = 0
    /\ error # "none" => out_before.kind = "dir"

C7_Witness ==
  /\ Finished /\ ~verify_only /\ Rendered
  /\ error = "none"
  /\ out_before.kind = "file"
  /\ out_before.data # <<>>
  /\ out_before.data # cloudbuild_contents
  /\ out.data = cloudbuild_contents

\* C8: a run renders the same document as the run before it rendered, as
\* long as the entries of k8s have not changed in between; the order of
\* the listing, the mode and cloudbuild.yaml may differ.
C8_RenderDeterministic ==
  (Rendered /\ prev_contents # <<>>) => cloudbuild_contents = prev_contents[1]

C8_Witness ==
  /\ pc = "rendered"
  /\ prev_contents # <<>>
  /\ listing_unsorted
  /\ verify_only
  /\ out.kind = "file"
  /\ out.data # cloudbuild_contents
  /\ Len(solutions_to_build) >= 2

\* C9: when k8s is missing or is no directory the run ends with an
\* uncaught OSError and a non-zero status, in either mode, having rendered
\* nothing, printed nothing, and left cloudbuild.yaml as it was.
C9_DiscoveryFailureFatal ==
  (Finished /\ root.kind # "dir") =>
    /\ error = "OSError"
    /\ exit_code # 0
    /\ ~Rendered
    /\ rendered_steps = <<>>
    /\ stdout = <<>>
    /\ out = out_before

C9_Witness ==
  /\ Finished
  /\ root.kind = "file"
  /\ verify_only
  /\ out.kind = "file"
  /\ out.data # <<>>
  /\ error = "OSError"

\* C10: the ids of the steps of the rendered document are pairwise
\* distinct.
C10_StepIdsUnique ==
  Rendered =>
    \A i, j \in 1..Len(rendered_steps) :
      i # j => rendered_steps[i].id # rendered_steps[j].id

====
